---- MODULE Spec2Model ----
(***************************************************************************)
(* Model of the text-analysis pipeline: main.py's batch loop, the          *)
(* Analyser of analysis.py and the output file of helpers/create_file.py.  *)
(*                                                                         *)
(* Text is a sequence of one-character strings.  A document is what the    *)
(* Document Source wrote for a url_id together with what the nltk          *)
(* tokenizer returns for it.  Python's int/int division is modelled by the *)
(* exact quotient, kept as a numerator and a denominator; 0.000001 is      *)
(* 1/EpsInv.                                                               *)
(***************************************************************************)
EXTENDS Integers, Sequences, FiniteSets, TLC

\* ---------------------------------------------------------------- bounds
MaxDocs == 2
MaxBatchTokens == 1
MaxTokens == 3
MaxSentences == 2

\* 0.000001 == 1 / EpsInv
EpsInv == 1000000

\* ------------------------------------------------------------ characters
UpperCase == <<"A","B","C","D","E","F","G","H","I","J","K","L","M",
               "N","O","P","Q","R","S","T","U","V","W","X","Y","Z">>
LowerCase == <<"a","b","c","d","e","f","g","h","i","j","k","l","m",
               "n","o","p","q","r","s","t","u","v","w","x","y","z">>

IsUpper(c) == \E i \in DOMAIN UpperCase : UpperCase[i] = c
IsLower(c) == \E i \in DOMAIN LowerCase : LowerCase[i] = c
\* [a-zA-Z]
IsAlpha(c) == IsUpper(c) \/ IsLower(c)
\* \s
IsSpace(c) == c \in {" ", "\t", "\n", "\r"}

\* str.lower() on one character
LowerChar(c) ==
    IF IsUpper(c) THEN LowerCase[CHOOSE i \in DOMAIN UpperCase : UpperCase[i] = c]
    ELSE c

\* str.lower()
Lower(text) == [i \in DOMAIN text |-> LowerChar(text[i])]

\* re.sub(r'[^a-zA-Z\s]', '', text)
ReSubNonAlpha(text) == SelectSeq(text, LAMBDA c : IsAlpha(c) \/ IsSpace(c))

RECURSIVE LStrip(_)
LStrip(text) ==
    IF text # <<>> /\ IsSpace(Head(text)) THEN LStrip(Tail(text)) ELSE text

RECURSIVE RStrip(_)
RStrip(text) ==
    IF text # <<>> /\ IsSpace(text[Len(text)])
    THEN RStrip(SubSeq(text, 1, Len(text) - 1))
    ELSE text

\* str.strip()
Strip(text) == RStrip(LStrip(text))

Range(s) == {s[i] : i \in DOMAIN s}

RECURSIVE SumSeq(_)
SumSeq(s) == IF s = <<>> THEN 0 ELSE Head(s) + SumSeq(Tail(s))

Max(a, b) == IF a >= b THEN a ELSE b

\* ------------------------------------------------------------- constants
\* constants.PERSONAL_PRONOUNS: case-sensitive, "US" is not in it
PERSONAL_PRONOUNS ==
    { <<"I">>, <<"w","e">>, <<"m","y">>, <<"o","u","r","s">>, <<"u","s">> }

\* --------------------------------------------------- syllable estimator
IsVowel(c) == c \in {"a", "e", "i", "o", "u", "y"}

\* maximal runs of vowels
VowelRuns(word) ==
    Cardinality({i \in DOMAIN word :
                    IsVowel(word[i]) /\ (i = 1 \/ ~IsVowel(word[i - 1]))})

\* a trailing "e" after a consonant is silent, unless it is the "e" of a
\* final "le" that follows a consonant
SilentE(word) ==
    LET n == Len(word) IN
    /\ n >= 2
    /\ word[n] = "e"
    /\ ~IsVowel(word[n - 1])
    /\ ~(n >= 3 /\ word[n - 1] = "l" /\ ~IsVowel(word[n - 2]))

\* helpers.syllables_count.sylco
sylco(word) ==
    Max(1, VowelRuns(Lower(word)) - (IF SilentE(Lower(word)) THEN 1 ELSE 0))

\* ---------------------------------------------------------------- cells
\* a computed cell of the output row: the exact value num / den
Rat(n, d) == [nan |-> FALSE, num |-> n, den |-> d]
\* the cell 'NaN'
NaN == [nan |-> TRUE, num |-> 0, den |-> 1]

NumericFields ==
    { "POSITIVE_SCORE", "NEGATIVE_SCORE", "SUBJECTIVITY_SCORE", "POLARITY_SCORE",
      "AVG_SENTENCE_LENGTH", "PERCENTAGE_OF_COMPLEX_WORDS", "FOG_INDEX",
      "AVG_NUMBER_OF_WORDS_PER_SENTENCE", "COMPLEX_WORD_COUNT", "WORD_COUNT",
      "SYLLABLE_PER_WORD", "PERSONAL_PRONOUNS", "AVG_WORD_LENGTH" }

\* the header line of output.csv
HeaderLine == [header |-> TRUE]

\* ------------------------------------------------------------ documents
\* tokens nltk.word_tokenize can return
TokI     == <<"I">>
TokUS    == <<"U", ".", "S", ".">>
TokGood  == <<"G", "o", "o", "d">>
TokAgony == <<"a", "g", "o", "n", "y">>
TokDot   == <<".">>

RawTokens == {TokI, TokUS, TokGood, TokAgony, TokDot}
BatchTokens == {TokI, TokAgony, TokDot}

SeqsUpTo(S, n) == UNION {[1..k -> S] : k \in 0..n}

\* text == "": nothing is tokenized
EmptyDocument ==
    [empty |-> TRUE, tokenizer |-> "ok", sentences |-> 0, tokens |-> <<>>]
\* text of whitespace only: no sentence, no token
BlankDocument ==
    [empty |-> FALSE, tokenizer |-> "ok", sentences |-> 0, tokens |-> <<>>]
\* nltk raises on this text
FailingDocument ==
    [empty |-> FALSE, tokenizer |-> "raises", sentences |-> 0, tokens |-> <<>>]

\* text with something in it: at least one sentence, and at least one token
\* in every sentence
TextDocuments(T, maxTokens) ==
    { [empty |-> FALSE, tokenizer |-> "ok", sentences |-> n, tokens |-> t] :
        <<t, n>> \in { p \in SeqsUpTo(T, maxTokens) \X (1..MaxSentences) :
                          p[1] # <<>> /\ p[2] <= Len(p[1]) } }

DocumentsOver(T, maxTokens) ==
    {EmptyDocument, BlankDocument, FailingDocument} \cup TextDocuments(T, maxTokens)

BatchDocuments == DocumentsOver(BatchTokens, MaxBatchTokens)
Documents == DocumentsOver(RawTokens, MaxTokens)

\* lexicons the Extractor can load (a trailing newline leaves "" in the list)
WGood  == <<"g", "o", "o", "d">>
WAgony == <<"a", "g", "o", "n", "y">>
WI     == <<"i">>
WUs    == <<"u", "s">>

PositiveLexicons == { {}, {<<>>, WGood, WUs} }
NegativeLexicons == { {}, {WAgony}, {WAgony, WGood} }
StopwordLexicons == { {}, {WI, WAgony} }

VARIABLES
    positive_words, negative_words, stopwords,       \* Analyser lexicons
    personal_pronouns, number_of_words,
    number_of_sentences, complex_words_count,        \* Analyser counters
    list_of_urls,                                    \* main: (url_id, url)
    files,                                           \* extracted_text_files
    output_exists, output,                           \* output.csv
    tokenized,                                       \* url_ids nltk was called on
    pc, idx, error                                   \* main's position

vars == << positive_words, negative_words, stopwords, personal_pronouns,
           number_of_words, number_of_sentences, complex_words_count,
           list_of_urls, files, output_exists, output, tokenized,
           pc, idx, error >>

\* ------------------------------------------------------------- Analyser
\* positive_score counting every occurrence: len([w for w in words if w in self.positive_words])
positive_score_occurrences(words) ==
    Len(SelectSeq(words, LAMBDA w : w \in positive_words))

\* Analyser.positive_score
positive_score(words) == Cardinality(positive_words \cap Range(words))

\* Analyser.negative_score
negative_score(words) == Cardinality(negative_words \cap Range(words))

\* polarity_score without the 0.000001 in the denominator
polarity_score_no_epsilon(p, n) == Rat(p - n, p + n)

\* Analyser.polarity_score
polarity_score(p, n) == Rat((p - n) * EpsInv, (p + n) * EpsInv + 1)

\* subjectivity_score with num_words and negative_score taken for each other
subjectivity_score_swapped(p, n, num_words) ==
    Rat((p + num_words) * EpsInv, n * EpsInv + 1)

\* Analyser.subjectivity_score
subjectivity_score(p, n, num_words) ==
    Rat((p + n) * EpsInv, num_words * EpsInv + 1)

\* Analyser.average_sentence_length; sentences is len(sentences)
average_sentence_length(words, sentences) == Rat(Len(words), sentences)

\* Analyser.syllable_count
syllable_count(word) == IF word # <<>> THEN sylco(word) ELSE 0

\* Analyser.clean_stop_words
clean_stop_words(words) == SelectSeq(words, LAMBDA w : w \notin stopwords)

\* complex_words classifying only the words that are not stopwords
complex_words_after_stopwords(words) ==
    SelectSeq(clean_stop_words(words), LAMBDA w : syllable_count(w) > 2)

\* Analyser.complex_words
complex_words(words) == SelectSeq(words, LAMBDA w : syllable_count(w) > 2)

\* Analyser.average_word_length
average_word_length(words) ==
    IF words # <<>>
    THEN Rat(SumSeq([i \in DOMAIN words |-> Len(words[i])]), Len(words))
    ELSE Rat(0, 1)

\* clean_and_filter: the text tested against PERSONAL_PRONOUNS
cleaned_text(text) == Strip(ReSubNonAlpha(text))

\* clean_and_filter: the value returned
clean_and_filter(text) == Lower(cleaned_text(text))

\* clean_and_filter: how often self.personal_pronouns += 1 runs in clean(words)
pronoun_increments(words) ==
    SumSeq([i \in DOMAIN words |->
              IF cleaned_text(words[i]) \in PERSONAL_PRONOUNS THEN 1 ELSE 0])

\* Analyser.clean: the list returned
clean(words) ==
    SelectSeq([i \in DOMAIN words |-> clean_and_filter(words[i])],
              LAMBDA w : w # <<>>)

\* the row of an empty document with WORD COUNT written as 0
undefined_data_zero_count(url_id, url) ==
    [ header |-> FALSE, URL_ID |-> url_id, URL |-> url,
      POSITIVE_SCORE |-> NaN, NEGATIVE_SCORE |-> NaN,
      SUBJECTIVITY_SCORE |-> NaN, POLARITY_SCORE |-> NaN,
      AVG_SENTENCE_LENGTH |-> NaN, PERCENTAGE_OF_COMPLEX_WORDS |-> NaN,
      FOG_INDEX |-> NaN, AVG_NUMBER_OF_WORDS_PER_SENTENCE |-> NaN,
      COMPLEX_WORD_COUNT |-> NaN, WORD_COUNT |-> Rat(0, 1),
      SYLLABLE_PER_WORD |-> NaN, PERSONAL_PRONOUNS |-> NaN,
      AVG_WORD_LENGTH |-> NaN ]

\* analyse, lines 212-228: the row of an empty document
undefined_data(url_id, url) ==
    [ header |-> FALSE, URL_ID |-> url_id, URL |-> url,
      POSITIVE_SCORE |-> NaN, NEGATIVE_SCORE |-> NaN,
      SUBJECTIVITY_SCORE |-> NaN, POLARITY_SCORE |-> NaN,
      AVG_SENTENCE_LENGTH |-> NaN, PERCENTAGE_OF_COMPLEX_WORDS |-> NaN,
      FOG_INDEX |-> NaN, AVG_NUMBER_OF_WORDS_PER_SENTENCE |-> NaN,
      COMPLEX_WORD_COUNT |-> NaN, WORD_COUNT |-> NaN,
      SYLLABLE_PER_WORD |-> NaN, PERSONAL_PRONOUNS |-> NaN,
      AVG_WORD_LENGTH |-> NaN ]

\* analyse, lines 251-299: the row of a document whose divisions succeed.
\* words is clean(...)'s list, sentences is len(sentences), pronouns is
\* self.personal_pronouns after clean
data(url_id, url, words, sentences, pronouns) ==
    LET p        == positive_score(words)
        n        == negative_score(words)
        asl      == average_sentence_length(words, sentences)
        cwc      == Len(complex_words(words))
        pcw      == Rat(cwc, Len(words))
        filtered == clean_stop_words(words)
    IN
    [ header |-> FALSE, URL_ID |-> url_id, URL |-> url,
      POSITIVE_SCORE |-> Rat(p, 1),
      NEGATIVE_SCORE |-> Rat(n, 1),
      SUBJECTIVITY_SCORE |-> subjectivity_score(p, n, Len(words)),
      POLARITY_SCORE |-> polarity_score(p, n),
      AVG_SENTENCE_LENGTH |-> asl,
      PERCENTAGE_OF_COMPLEX_WORDS |-> pcw,
      FOG_INDEX |-> Rat(2 * (asl.num * pcw.den + pcw.num * asl.den),
                        5 * asl.den * pcw.den),
      AVG_NUMBER_OF_WORDS_PER_SENTENCE |-> Rat(Len(words), sentences),
      COMPLEX_WORD_COUNT |-> Rat(cwc, 1),
      WORD_COUNT |-> Rat(Len(filtered), 1),
      SYLLABLE_PER_WORD |->
          IF filtered # <<>>
          THEN Rat(SumSeq([i \in DOMAIN filtered |-> syllable_count(filtered[i])]),
                   Len(filtered))
          ELSE Rat(0, 1),
      PERSONAL_PRONOUNS |-> Rat(pronouns, 1),
      AVG_WORD_LENGTH |-> average_word_length(filtered) ]

\* to_csv's own default, header=True
header_arg_always(exists) == TRUE

\* to_csv(..., header=<this>)
header_arg(exists) == ~exists

\* df.to_csv(output_csv_path, index=False, mode='a', header=not os.path.exists(...))
to_csv(lines, exists, row) ==
    IF header_arg(exists) THEN lines \o <<HeaderLine, row>> ELSE Append(lines, row)

\* ------------------------------------------------------------- actions
\* the state when main reaches create_output_csv_file()
InitWith(maxDocs) ==
    /\ positive_words \in PositiveLexicons
    /\ negative_words \in NegativeLexicons
    /\ stopwords \in StopwordLexicons
    /\ personal_pronouns = 0
    /\ number_of_words = 0
    /\ number_of_sentences = 0
    /\ complex_words_count = 0
    /\ \E n \in 0..maxDocs : list_of_urls = [i \in 1..n |-> <<i, <<"url", i>>>>]
    /\ files = <<>>
    /\ \/ output_exists = FALSE /\ output = <<>>
       \/ output_exists = TRUE /\ output = <<HeaderLine, undefined_data(0, <<"url", 0>>)>>
    /\ tokenized = {}
    /\ pc = "create"
    /\ idx = 1
    /\ error = "none"

Init == InitWith(MaxDocs)

\* for loop of main: the next url, or the end of the list
LoopPc(i) == IF i <= Len(list_of_urls) THEN "extract" ELSE "done"

\* helpers.create_file.create_output_csv_file
create_output_csv_file ==
    /\ pc = "create"
    /\ output' = <<HeaderLine>>
    /\ output_exists' = TRUE
    /\ pc' = LoopPc(idx)
    /\ UNCHANGED << positive_words, negative_words, stopwords, personal_pronouns,
                    number_of_words, number_of_sentences, complex_words_count,
                    list_of_urls, files, tokenized, idx, error >>

\* Extractor.extract_text_and_save: the page's text is written to the file
SaveText(docs) ==
    /\ pc = "extract"
    /\ \E d \in docs : files' = Append(files, d)
    /\ pc' = "analyse"
    /\ UNCHANGED << positive_words, negative_words, stopwords, personal_pronouns,
                    number_of_words, number_of_sentences, complex_words_count,
                    list_of_urls, output_exists, output, tokenized, idx, error >>

extract_text_and_save == SaveText(BatchDocuments)

extract_long_text_and_save == SaveText(Documents)

\* Analyser.analyse(url_id, url), called from main's loop
analyse ==
    /\ pc = "analyse"
    /\ LET url_id == list_of_urls[idx][1]
           url    == list_of_urls[idx][2]
           text   == files[url_id]
           words  == clean(text.tokens)
           pp     == personal_pronouns + pronoun_increments(text.tokens)
       IN
       IF text.empty THEN
            \* lines 209-238
            /\ output' = to_csv(output, output_exists, undefined_data(url_id, url))
            /\ output_exists' = TRUE
            /\ idx' = idx + 1
            /\ pc' = LoopPc(idx + 1)
            /\ UNCHANGED << personal_pronouns, number_of_words, number_of_sentences,
                            complex_words_count, tokenized, error >>
       ELSE IF text.tokenizer = "raises" THEN
            \* lines 240-241: the exception leaves analyse and main
            /\ tokenized' = tokenized \cup {url_id}
            /\ pc' = "crashed"
            /\ error' = "TokenizerError"
            /\ UNCHANGED << personal_pronouns, number_of_words, number_of_sentences,
                            complex_words_count, output_exists, output, idx >>
       ELSE IF text.sentences = 0 THEN
            \* line 257: ZeroDivisionError
            /\ tokenized' = tokenized \cup {url_id}
            /\ personal_pronouns' = pp
            /\ number_of_words' = Len(words)
            /\ number_of_sentences' = text.sentences
            /\ pc' = "crashed"
            /\ error' = "ZeroDivisionError"
            /\ UNCHANGED << complex_words_count, output_exists, output, idx >>
       ELSE IF Len(words) = 0 THEN
            \* line 259: ZeroDivisionError
            /\ tokenized' = tokenized \cup {url_id}
            /\ personal_pronouns' = pp
            /\ number_of_words' = Len(words)
            /\ number_of_sentences' = text.sentences
            /\ complex_words_count' = Len(complex_words(words))
            /\ pc' = "crashed"
            /\ error' = "ZeroDivisionError"
            /\ UNCHANGED << output_exists, output, idx >>
       ELSE
            \* lines 243-307
            /\ tokenized' = tokenized \cup {url_id}
            /\ personal_pronouns' = pp
            /\ number_of_words' = Len(words)
            /\ number_of_sentences' = text.sentences
            /\ complex_words_count' = Len(complex_words(words))
            /\ output' = to_csv(output, output_exists,
                                data(url_id, url, words, text.sentences, pp))
            /\ output_exists' = TRUE
            /\ idx' = idx + 1
            /\ pc' = LoopPc(idx + 1)
            /\ UNCHANGED error
    /\ UNCHANGED << positive_words, negative_words, stopwords, list_of_urls, files >>

Next == create_output_csv_file \/ extract_text_and_save \/ analyse

Spec == Init /\ [][Next]_vars

\* one document of any text the tokenizer model covers, on a fresh Analyser
InitDocument == InitWith(1)

NextDocument == create_output_csv_file \/ extract_long_text_and_save \/ analyse

SpecDocument == InitDocument /\ [][NextDocument]_vars

\* ---------------------------------------------------------------- claims
\* the lines of output.csv that are rows of this run's documents
DataRows == {k \in DOMAIN output : ~output[k].header /\ output[k].URL_ID \in DOMAIN files}

RowsOf(url_id) == {k \in DataRows : output[k].URL_ID = url_id}

Computed(row) == \A f \in NumericFields : ~row[f].nan
Undefined(row) == \A f \in NumericFields : row[f].nan

\* analyse(url_id, ...) has run: it returned or it raised
Analysed(url_id) == url_id < idx \/ (url_id = idx /\ pc = "crashed")

\* the normalized word list of a saved document
WordsOf(url_id) == clean(files[url_id].tokens)

\* raw tokens whose stripped form is a personal pronoun
PronounTokens(tokens) ==
    Cardinality({i \in DOMAIN tokens : cleaned_text(tokens[i]) \in PERSONAL_PRONOUNS})

RECURSIVE SumAt(_, _)
SumAt(S, vals) ==
    IF S = {} THEN 0
    ELSE LET i == CHOOSE j \in S : TRUE IN vals[i] + SumAt(S \ {i}, vals)

\* C1: in every row of a non-empty document, PERSONAL PRONOUNS is the number
\* of that document's own raw tokens whose stripped form is a personal
\* pronoun; nothing counted for an earlier document is carried over.
C1_PronounsOfDocumentAlone ==
    \A k \in DataRows :
        ~output[k].PERSONAL_PRONOUNS.nan =>
            output[k].PERSONAL_PRONOUNS
                = Rat(PronounTokens(files[output[k].URL_ID].tokens), 1)

\* C2: once the batch loop has ended, every input document has exactly one
\* row, and every row has its thirteen numeric fields all computed or all NaN.
C2_OneRecordPerDocument ==
    pc \in {"done", "crashed"} =>
        /\ \A i \in DOMAIN list_of_urls : Cardinality(RowsOf(i)) = 1
        /\ \A k \in DataRows : Computed(output[k]) \/ Undefined(output[k])

\* C3: a non-empty text with no sentence, or with no word left after
\* normalization, does not make analyse fail with a division by zero:
\* analyse completes and the document has its row.
C3_NoDivisionByZero ==
    \A i \in DOMAIN files :
        ( /\ Analysed(i)
          /\ ~files[i].empty
          /\ files[i].tokenizer = "ok"
          /\ (files[i].sentences = 0 \/ Len(WordsOf(i)) = 0) )
        => (error # "ZeroDivisionError" /\ RowsOf(i) # {})

\* C4: a document whose tokenization fails gets the all-undefined row, and
\* the batch goes on to the later documents instead of stopping.
C4_TokenizerFailureRecoverable ==
    \A i \in DOMAIN files :
        (Analysed(i) /\ ~files[i].empty /\ files[i].tokenizer = "raises")
        => /\ pc # "crashed"
           /\ \E k \in RowsOf(i) : Undefined(output[k])

\* C5: an empty document gets a row with its identifier and URL and with
\* every numeric field NaN, and the tokenizer is not called for it, whatever
\* the lexicons hold.
C5_EmptyTextUndefinedRecord ==
    \A i \in DOMAIN files :
        (files[i].empty /\ ~(i = idx /\ pc = "analyse"))
        => /\ i \notin tokenized
           /\ \E k \in RowsOf(i) :
                /\ output[k].URL = list_of_urls[i][2]
                /\ Undefined(output[k])

C5_Witness ==
    /\ positive_words # {} /\ negative_words # {} /\ stopwords # {}
    /\ \E i \in DOMAIN files : files[i].empty /\ Analysed(i) /\ RowsOf(i) # {}

\* C6: from create_output_csv_file on, output.csv is the header line, once
\* and first, followed by one row per analysed document in the order of
\* analysis, whatever mix of empty and non-empty documents was analysed.
C6_HeaderOnceThenRowsInOrder ==
    pc # "create" =>
        /\ Len(output) = idx
        /\ output[1].header
        /\ \A k \in 2..Len(output) : ~output[k].header /\ output[k].URL_ID = k - 1

C6_Witness ==
    /\ Len(output) >= 3
    /\ \E i \in DOMAIN files : files[i].empty /\ RowsOf(i) # {}
    /\ \E i \in DOMAIN files : ~files[i].empty /\ RowsOf(i) # {}

\* C7 as stated: with at least one normalized word, the subjectivity score
\* is in [0, 1] for every choice of lexicons, shared words included.
C7_SubjectivityInUnitInterval ==
    \A k \in DataRows :
        (Computed(output[k]) /\ Len(WordsOf(output[k].URL_ID)) > 0)
        => /\ 0 <= output[k].SUBJECTIVITY_SCORE.num
           /\ output[k].SUBJECTIVITY_SCORE.num <= output[k].SUBJECTIVITY_SCORE.den

\* the positive and the negative lexicon share a word of the document
SharedWordIn(words) == positive_words \cap negative_words \cap Range(words) # {}

\* C7 amended: with at least one normalized word, and no word of the document
\* in both the positive and the negative lexicon, the subjectivity score is
\* in [0, 1].
C7_SubjectivityInUnitIntervalDisjoint ==
    \A k \in DataRows :
        ( /\ Computed(output[k])
          /\ Len(WordsOf(output[k].URL_ID)) > 0
          /\ ~SharedWordIn(WordsOf(output[k].URL_ID)) )
        => /\ 0 <= output[k].SUBJECTIVITY_SCORE.num
           /\ output[k].SUBJECTIVITY_SCORE.num <= output[k].SUBJECTIVITY_SCORE.den

C7_Witness ==
    /\ positive_words \cap negative_words # {}
    /\ \E k \in DataRows :
        /\ Computed(output[k])
        /\ ~SharedWordIn(WordsOf(output[k].URL_ID))
        /\ output[k].SUBJECTIVITY_SCORE.num > 0

\* C8: the polarity score is defined (its denominator is not 0) and lies in
\* [-1, 1], also when the positive and the negative score are both 0.
C8_PolarityDefinedAndBounded ==
    \A k \in DataRows :
        Computed(output[k]) =>
            /\ output[k].POLARITY_SCORE.den > 0
            /\ -output[k].POLARITY_SCORE.den <= output[k].POLARITY_SCORE.num
            /\ output[k].POLARITY_SCORE.num <= output[k].POLARITY_SCORE.den

C8_Witness ==
    \E k \in DataRows :
        /\ Computed(output[k])
        /\ output[k].POSITIVE_SCORE.num = 0
        /\ output[k].NEGATIVE_SCORE.num = 0
        /\ output[k].POLARITY_SCORE.num = 0

\* positions of words that hold a lexicon word for the first time
FirstOccurrences(words, lexicon) ==
    {i \in DOMAIN words : words[i] \in lexicon /\ \A j \in 1..(i - 1) : words[j] # words[i]}

\* words is the cleaned raw tokens, without the empty ones, in input order
KeepsDuplicatesAndOrder(tokens, words) ==
    LET kept    == {i \in DOMAIN tokens : clean_and_filter(tokens[i]) # <<>>}
        rank(i) == Cardinality({j \in kept : j <= i})
    IN  /\ Len(words) = Cardinality(kept)
        /\ \A i \in kept : words[rank(i)] = clean_and_filter(tokens[i])

\* C9: the positive (negative) score is the number of distinct normalized
\* words of the document that are in the positive (negative) lexicon: a
\* word is counted at its first occurrence only, while the normalized word
\* list keeps every occurrence, in input order.
C9_ScoresCountDistinctWords ==
    \A k \in DataRows :
        Computed(output[k]) =>
            LET tokens == files[output[k].URL_ID].tokens
                words  == clean(tokens)
            IN  /\ output[k].POSITIVE_SCORE
                     = Rat(Cardinality(FirstOccurrences(words, positive_words)), 1)
                /\ output[k].NEGATIVE_SCORE
                     = Rat(Cardinality(FirstOccurrences(words, negative_words)), 1)
                /\ KeepsDuplicatesAndOrder(tokens, words)

C9_Witness ==
    \E k \in DataRows :
        /\ Computed(output[k])
        /\ output[k].POSITIVE_SCORE.num = 1
        /\ LET words == WordsOf(output[k].URL_ID)
           IN  \E i, j \in DOMAIN words :
                  i < j /\ words[i] = words[j] /\ words[i] \in positive_words

\* C10: complex words are counted, and their percentage taken, over the
\* normalized words before stopword removal; WORD COUNT, syllables per word
\* and average word length are taken over the words left after stopword
\* removal, and are 0 when none is left.
C10_ComplexBeforeStopwordsLengthsAfter ==
    \A k \in DataRows :
        Computed(output[k]) =>
            LET words   == WordsOf(output[k].URL_ID)
                complex == {i \in DOMAIN words : syllable_count(words[i]) > 2}
                kept    == {i \in DOMAIN words : words[i] \notin stopwords}
                syl     == [i \in DOMAIN words |-> syllable_count(words[i])]
                len     == [i \in DOMAIN words |-> Len(words[i])]
            IN  /\ output[k].COMPLEX_WORD_COUNT = Rat(Cardinality(complex), 1)
                /\ output[k].PERCENTAGE_OF_COMPLEX_WORDS
                     = Rat(Cardinality(complex), Len(words))
                /\ output[k].WORD_COUNT = Rat(Cardinality(kept), 1)
                /\ output[k].SYLLABLE_PER_WORD
                     = IF kept = {} THEN Rat(0, 1)
                       ELSE Rat(SumAt(kept, syl), Cardinality(kept))
                /\ output[k].AVG_WORD_LENGTH
                     = IF kept = {} THEN Rat(0, 1)
                       ELSE Rat(SumAt(kept, len), Cardinality(kept))

C10_Witness ==
    \E k \in DataRows :
        /\ Computed(output[k])
        /\ output[k].COMPLEX_WORD_COUNT.num > 0
        /\ output[k].WORD_COUNT.num > 0
        /\ LET words == WordsOf(output[k].URL_ID)
           IN  /\ output[k].WORD_COUNT.num < Len(words)
               /\ \E i \in DOMAIN words :
                     words[i] \in stopwords /\ syllable_count(words[i]) > 2

====
